---- MODULE Spec2Model ----
(***************************************************************************)
(* Model of the checkpoint manager (checkpoint_manager.py), of the         *)
(* concurrent batch dispatcher and the aggregator (gpt_processor.py), of   *)
(* the text splitter (text_splitter.py) and of the batched OCR extraction  *)
(* (file_processor.py).                                                    *)
(*                                                                         *)
(* Spec       : the CheckpointManager used as an API: create_checkpoint    *)
(*              followed by arbitrary update_file_status calls.            *)
(* BatchSpec  : GPTProcessor.run_extraction_only: create the checkpoint,   *)
(*              submit every text to the thread pool, collect the futures, *)
(*              sort and return.                                           *)
(* FairBatchSpec : BatchSpec with the fairness of the thread scheduler.    *)
(* CrashSpec  : process runs over one checkpoint directory: create, the    *)
(*              collector's updates, each save in two steps (open, dump),  *)
(*              a stop at any point, restart with cleanup, load.           *)
(* ResumeSpec : main.py's resume of a persisted session followed by the    *)
(*              batch.                                                     *)
(* InterruptSpec : BatchSpec with a KeyboardInterrupt in the calling       *)
(*              thread.                                                    *)
(* DirSpec    : list_checkpoints, _cleanup_old_checkpoints and             *)
(*              load_checkpoint over directories with parsable and         *)
(*              unparsable records of different ages.                      *)
(* AggSpec    : deduplicate_terms over the results of a batch.             *)
(* SplitSpec  : TextSplitter (text_splitter.py): construction, a text put  *)
(*              together from short pieces, split_text_advanced with the   *)
(*              loop of _split_by_patterns pass by pass, the merge of      *)
(*              small chunks and the overlap.                              *)
(* OcrSpec    : the retry loop of PDFExtractor._extract_pdf_in_batches     *)
(*              (file_processor.py): extract, save, unlink per attempt.    *)
(***************************************************************************)
EXTENDS Integers, Sequences, FiniteSets, TLC

\* ---------------------------------------------------------------- bounds
MaxFiles == 2        \* files handed to create_checkpoint in Spec
MaxCount == 3        \* cap on completed_files / failed_files in Spec
MaxTexts == 3        \* texts of one batch in BatchSpec
MaxConcurrent == 2   \* largest max_concurrent tried in BatchSpec
MaxClock == 1        \* last day a session is created on in CrashSpec and DirSpec
MaxStoreFiles == 1   \* files of one checkpoint in CrashSpec and DirSpec
MaxResumeTexts == 2  \* texts of the batch in ResumeSpec
MaxResults == 3      \* results handed to deduplicate_terms in AggSpec
MaxSources == 2      \* source files the results come from in AggSpec

VARIABLES
    current_checkpoint,  \* CheckpointManager.current_checkpoint: <<>> is None, <<cp>> a checkpoint
    disk,                \* the persisted record <checkpoint_id>.json: <<>> or <<cp>>
    incr_count,          \* history: per file index, how many times "+= 1" ran for it
    pc,                  \* position of the calling (main) thread
    texts,               \* len(texts) of the batch
    max_concurrent,      \* the max_concurrent argument
    semaphore,           \* free permits of self.semaphore
    submitted,           \* number of tasks handed to executor.submit so far
    task,                \* per item: state of its future / of process_single_text
    outcome,             \* per item: what the future holds once it is done
    results,             \* the results list of _collect_batch_results / process_batch_concurrent
    updating,            \* items whose update_file_status execution is in progress
    local,               \* per item in updating: the values that execution has read
    completion_order,    \* history: the items in the order as_completed yielded them
    now,                 \* the wall clock, in days
    dir,                 \* the checkpoint directory: file name (checkpoint id) -> content and mtime
    op,                  \* history: the last call or event (name, argument, what it returned)
    acked,               \* history: the checkpoint as of the last create / update that returned
    max_tokens,          \* TextSplitter.max_tokens
    overlap_tokens,      \* TextSplitter.overlap_tokens
    text,                \* the text handed to split_text_advanced
    processed_text,      \* split_text_advanced's processed_text (the text of _split_by_patterns)
    current_pos,         \* _split_by_patterns' current_pos
    chunks,              \* the chunks list of _split_by_patterns, then of the SplitResult
    num_batches,         \* _extract_pdf_in_batches: number of page batches
    max_retries,         \* _extract_pdf_in_batches: the max_retries argument
    batch_idx,           \* the batch the outer loop is at
    retry_attempt,       \* the attempt the retry loop is at
    all_texts,           \* the accumulated result: the batch each text came from
    batch_output_file,   \* the result file: the batch of each block appended to it
    attempts             \* history: per batch, how many times the extractor was called for it

vars == <<current_checkpoint, disk, incr_count, pc, texts, max_concurrent,
          semaphore, submitted, task, outcome, results, updating, local,
          completion_order, now, dir, op, acked, max_tokens, overlap_tokens, text,
          processed_text, current_pos, chunks, num_batches, max_retries, batch_idx,
          retry_attempt, all_texts, batch_output_file, attempts>>

ckptVars == <<current_checkpoint, disk, incr_count>>
batchVars == <<pc, texts, max_concurrent, semaphore, submitted, task, outcome,
               results, updating, local, completion_order>>
storeVars == <<now, dir, op, acked>>
splitVars == <<max_tokens, overlap_tokens, text, processed_text, current_pos, chunks>>
ocrVars == <<num_batches, max_retries, batch_idx, retry_attempt, all_texts,
             batch_output_file, attempts>>
laterVars == <<storeVars, splitVars, ocrVars>>

\* no splitter constructed and no text handed to it
NoSplitter ==
    /\ max_tokens = 0
    /\ overlap_tokens = 0
    /\ text = <<>>
    /\ processed_text = <<>>
    /\ current_pos = 0
    /\ chunks = <<>>

\* no batched extraction running
NoExtraction ==
    /\ num_batches = 0
    /\ max_retries = 0
    /\ batch_idx = 0
    /\ retry_attempt = 0
    /\ all_texts = <<>>
    /\ batch_output_file = <<>>
    /\ attempts = <<>>

\* ------------------------------------------------------------ data model
STATUSES == {"pending", "processing", "completed", "failed"}

\* FileProcessingState; file_size, file_hash and the two timestamps are
\* wall-clock / file-system values no operation reads back, and are left out.
FileProcessingState(path, st, err) ==
    [file_path |-> path, status |-> st, error_message |-> err, result_data |-> "None"]

\* BatchProcessingCheckpoint as create_checkpoint builds it.
BatchProcessingCheckpoint(states) ==
    [total_files |-> Len(states), completed_files |-> 0, failed_files |-> 0,
     files_state |-> states, is_completed |-> FALSE]

\* The loop of create_checkpoint over files: os.path.getsize succeeds for the
\* paths in readable (status pending) and raises for the others (status failed,
\* error recorded, failed_files NOT touched).
InitialFilesState(files, readable) ==
    [k \in 1..Len(files) |->
        IF files[k] \in readable
        THEN FileProcessingState(files[k], "pending", "None")
        ELSE FileProcessingState(files[k], "failed", "oserror")]

create_checkpoint(files, readable) ==
    BatchProcessingCheckpoint(InitialFilesState(files, readable))

\* _save_checkpoint: the whole in-memory checkpoint is re-serialised.
SaveCheckpoint(cpopt) == cpopt

\* "for state in files_state: if state.file_path == file_path": index of the
\* first match, 0 when there is none.
FindState(cp, path) ==
    LET hits == {k \in 1..Len(cp.files_state) : cp.files_state[k].file_path = path}
    IN IF hits = {} THEN 0 ELSE CHOOSE k \in hits : \A j \in hits : k <= j

\* Lines 270-287 up to the read of the counter: the status is overwritten
\* unconditionally, result / error stored, and the guards old_status # status
\* decide which counter is to be incremented.
UpdateItem(cp, path, status, result_data, error_message) ==
    LET k == FindState(cp, path) IN
    IF k = 0
    THEN [cp |-> cp, item |-> 0, incC |-> FALSE, incF |-> FALSE,
          tmpC |-> cp.completed_files, tmpF |-> cp.failed_files]
    ELSE LET old_status == cp.files_state[k].status
             s1 == [cp.files_state[k] EXCEPT !.status = status]
             s2 == IF status = "completed" THEN [s1 EXCEPT !.result_data = result_data]
                   ELSE IF status = "failed" THEN [s1 EXCEPT !.error_message = error_message]
                   ELSE s1
         IN [cp |-> [cp EXCEPT !.files_state[k] = s2],
             item |-> k,
             incC |-> (status = "completed" /\ old_status # "completed"),
             incF |-> (status = "failed" /\ old_status # "failed"),
             tmpC |-> cp.completed_files, tmpF |-> cp.failed_files]

\* The write half of "+= 1" and lines 291-294: is_completed is only ever set.
UpdateCounters(cp, loc) ==
    LET c == IF loc.incC THEN loc.tmpC + 1 ELSE cp.completed_files
        f == IF loc.incF THEN loc.tmpF + 1 ELSE cp.failed_files
    IN [cp EXCEPT !.completed_files = c, !.failed_files = f,
                  !.is_completed = IF c + f >= cp.total_files THEN TRUE ELSE @]

\* update_file_status run without interruption.
update_file_status(cp, path, status, result_data, error_message) ==
    LET loc == UpdateItem(cp, path, status, result_data, error_message)
    IN UpdateCounters(loc.cp, loc)

\* history bookkeeping for one executed update
CountIncrement(cnt, loc) ==
    IF loc.item # 0 /\ (loc.incC \/ loc.incF)
    THEN [cnt EXCEPT ![loc.item] = @ + 1] ELSE cnt

\* ------------------------------------------------- Spec: the manager as API
Init ==
    /\ current_checkpoint = <<>>
    /\ disk = <<>>
    /\ incr_count = <<>>
    /\ pc = "api"
    /\ texts = 0
    /\ max_concurrent = 0
    /\ semaphore = 0
    /\ submitted = 0
    /\ task = <<>>
    /\ outcome = <<>>
    /\ results = <<>>
    /\ updating = {}
    /\ local = <<>>
    /\ completion_order = <<>>
    /\ now = 0
    /\ dir = <<>>
    /\ op = [name |-> "none", arg |-> <<>>, ret |-> <<>>]
    /\ acked = <<>>
    /\ NoSplitter
    /\ NoExtraction

\* create_checkpoint(files, ...) on a fresh manager; the paths are 0..n-1.
Create ==
    /\ pc = "api"
    /\ current_checkpoint = <<>>
    /\ \E n \in 0..MaxFiles : \E readable \in SUBSET (0..(n-1)) :
          LET files == [k \in 1..n |-> k - 1] IN
          /\ current_checkpoint' = <<create_checkpoint(files, readable)>>
          /\ disk' = SaveCheckpoint(current_checkpoint')
          /\ incr_count' = [k \in 1..n |-> 0]
    /\ UNCHANGED <<batchVars, laterVars>>

\* update_file_status(file_path, status, ...) with any path and any status;
\* callers pass the result with completed and the message with failed.
Update ==
    /\ pc = "api"
    /\ current_checkpoint # <<>>
    /\ current_checkpoint[1].completed_files < MaxCount
    /\ current_checkpoint[1].failed_files < MaxCount
    /\ \E path \in 0..MaxFiles : \E status \in STATUSES :
          LET cp == current_checkpoint[1]
              loc == UpdateItem(cp, path, status, "result", "error") IN
          /\ current_checkpoint' = <<UpdateCounters(loc.cp, loc)>>
          /\ disk' = SaveCheckpoint(current_checkpoint')
          /\ incr_count' = CountIncrement(incr_count, loc)
    /\ UNCHANGED <<batchVars, laterVars>>

Next == Create \/ Update

Spec == Init /\ [][Next]_vars


\* --------------------------------------------- BatchSpec: the dispatcher

\* custom_id = f"term-extraction-{i+1}": the constant prefix is left implicit
\* and the identifier is the sequence of decimal digits of i+1.
RECURSIVE Digits(_)
Digits(m) == IF m < 10 THEN <<m>> ELSE Append(Digits(m \div 10), m % 10)

CustomId(i) == Digits(i + 1)

\* int(custom_id.split('-')[-1])
RECURSIVE ParseInt(_)
ParseInt(d) ==
    IF Len(d) = 0 THEN 0 ELSE 10 * ParseInt(SubSeq(d, 1, Len(d) - 1)) + d[Len(d)]

\* text_index = int(custom_id.split('-')[-1]) - 1
TextIndex(custom_id) == ParseInt(custom_id) - 1

\* f"virtual_text_{i}_{source_file}": the same label is built from i by
\* create_processing_checkpoint and from text_index by
\* update_text_processing_status; it is identified with the index.
VirtualFile(i) == i

\* Python's str "<" on two custom ids (character by character, a proper
\* prefix is smaller).
RECURSIVE StrLess(_, _)
StrLess(a, b) ==
    IF Len(b) = 0 THEN FALSE
    ELSE IF Len(a) = 0 THEN TRUE
    ELSE IF a[1] # b[1] THEN a[1] < b[1]
    ELSE StrLess(Tail(a), Tail(b))

\* results.sort(key=lambda x: x.get("custom_id", "")): a stable sort, each
\* element is placed behind the elements whose key is not greater.
RECURSIVE InsertByCustomId(_, _)
InsertByCustomId(x, sorted) ==
    IF Len(sorted) = 0 THEN <<x>>
    ELSE IF StrLess(x.custom_id, sorted[1].custom_id) THEN <<x>> \o sorted
    ELSE <<sorted[1]>> \o InsertByCustomId(x, Tail(sorted))

SortSkipped(seq) == seq

RECURSIVE SortByCustomId(_)
SortByCustomId(seq) ==
    IF Len(seq) = 0 THEN <<>>
    ELSE InsertByCustomId(seq[Len(seq)], SortByCustomId(SubSeq(seq, 1, Len(seq) - 1)))

ConcurrencyLimitOffByOne == max_concurrent + 1

\* The limit both threading.Semaphore(max_concurrent) and
\* ThreadPoolExecutor(max_workers=max_concurrent) are built from.
ConcurrencyLimit == max_concurrent

\* What the future of a task holds: the dict process_single_text returns from
\* its normal path, or the dict _create_error_result builds in its handler.
ResultOf(k, o) == [custom_id |-> CustomId(k - 1), error |-> (o # "ok")]

\* Items a pool thread is executing process_single_text for.
Busy == {k \in 1..texts : task[k] \in {"running", "inflight"}}

\* Items whose call to the external transform is in flight (inside the
\* "with self.semaphore" block).
InFlight == {k \in 1..texts : task[k] = "inflight"}

CollectorNeverWaits == TRUE

\* The as_completed loop runs its body for one future at a time, on the
\* calling thread: a new iteration starts only when the previous one is over.
CollectorIdle == updating = {}

BatchInit ==
    /\ current_checkpoint = <<>>
    /\ disk = <<>>
    /\ incr_count = <<>>
    /\ pc = "start"
    /\ texts \in 0..MaxTexts
    /\ max_concurrent \in 1..MaxConcurrent
    /\ semaphore = 5
    /\ submitted = 0
    /\ task = [k \in 1..texts |-> "new"]
    /\ outcome = [k \in 1..texts |-> "none"]
    /\ results = <<>>
    /\ updating = {}
    /\ local = <<>>
    /\ completion_order = <<>>
    /\ now = 0
    /\ dir = <<>>
    /\ op = [name |-> "none", arg |-> <<>>, ret |-> <<>>]
    /\ acked = <<>>
    /\ NoSplitter
    /\ NoExtraction

\* run_extraction_only -> create_processing_checkpoint: one virtual file per
\* text; whether a file of that name exists decides pending or failed.
CreateProcessingCheckpoint ==
    /\ pc = "start"
    /\ \E readable \in SUBSET (0..(texts - 1)) :
          LET virtual_files == [k \in 1..texts |-> VirtualFile(k - 1)] IN
          /\ current_checkpoint' = <<create_checkpoint(virtual_files, readable)>>
          /\ disk' = SaveCheckpoint(current_checkpoint')
          /\ incr_count' = [k \in 1..texts |-> 0]
    /\ pc' = "batch"
    /\ UNCHANGED <<laterVars, texts, max_concurrent, semaphore, submitted, task, outcome,
                   results, updating, local, completion_order>>

\* process_batch_concurrent up to the creation of the executor.
StartBatch ==
    /\ pc = "batch"
    /\ semaphore' = ConcurrencyLimit
    /\ results' = <<>>
    /\ pc' = IF texts = 0 THEN "collect" ELSE "submit"
    /\ UNCHANGED <<laterVars, ckptVars, texts, max_concurrent, submitted, task, outcome,
                   updating, local, completion_order>>

\* _submit_batch_tasks: one executor.submit per text, in input order.
Submit ==
    /\ pc = "submit"
    /\ submitted < texts
    /\ submitted' = submitted + 1
    /\ task' = [task EXCEPT ![submitted + 1] = "queued"]
    /\ pc' = IF submitted + 1 = texts THEN "collect" ELSE "submit"
    /\ UNCHANGED <<laterVars, ckptVars, texts, max_concurrent, semaphore, outcome, results,
                   updating, local, completion_order>>

\* A pool thread takes the oldest queued work item; the pool never has more
\* than max_workers threads.
WorkerTake(k) ==
    /\ task[k] = "queued"
    /\ \A j \in 1..texts : task[j] = "queued" => k <= j
    /\ Cardinality(Busy) < ConcurrencyLimit
    /\ task' = [task EXCEPT ![k] = "running"]
    /\ UNCHANGED <<laterVars, ckptVars, pc, texts, max_concurrent, semaphore, submitted,
                   outcome, results, updating, local, completion_order>>

\* process_single_text: "with self.semaphore" is entered and the request is
\* built and sent.
Acquire(k) ==
    /\ task[k] = "running"
    /\ semaphore > 0
    /\ semaphore' = semaphore - 1
    /\ task' = [task EXCEPT ![k] = "inflight"]
    /\ UNCHANGED <<laterVars, ckptVars, pc, texts, max_concurrent, submitted, outcome,
                   results, updating, local, completion_order>>

ReturnKeepsPermitOnError(k) ==
    /\ task[k] = "inflight"
    /\ \E o \in {"ok", "error"} :
          /\ outcome' = [outcome EXCEPT ![k] = o]
          /\ semaphore' = IF o = "ok" THEN semaphore + 1 ELSE semaphore
    /\ task' = [task EXCEPT ![k] = "done"]
    /\ UNCHANGED <<laterVars, ckptVars, pc, texts, max_concurrent, submitted, results,
                   updating, local, completion_order>>

\* The call returns a response (ok) or raises (error): "except Exception"
\* turns every exception into an error result, the semaphore is released and
\* the future is set with the returned dict.
Return(k) ==
    /\ task[k] = "inflight"
    /\ \E o \in {"ok", "error"} : outcome' = [outcome EXCEPT ![k] = o]
    /\ semaphore' = semaphore + 1
    /\ task' = [task EXCEPT ![k] = "done"]
    /\ UNCHANGED <<laterVars, ckptVars, pc, texts, max_concurrent, submitted, results,
                   updating, local, completion_order>>

\* One iteration of the as_completed loop, up to the point where
\* update_file_status has rewritten the item and read the counter:
\* future.result() returns the dict (status completed) or raises (an error
\* result is appended, status failed).
Collect(k) ==
    /\ pc = "collect"
    /\ task[k] = "done"
    /\ CollectorIdle
    /\ LET result == ResultOf(k, outcome[k])
           text_index == TextIndex(result.custom_id)
           loc == IF outcome[k] = "raised"
                  THEN UpdateItem(current_checkpoint[1], VirtualFile(text_index),
                                  "failed", "None", "exception")
                  ELSE UpdateItem(current_checkpoint[1], VirtualFile(text_index),
                                  "completed",
                                  IF result.error THEN "error_result" ELSE "result",
                                  "None")
       IN /\ results' = Append(results, result)
          /\ current_checkpoint' = <<loc.cp>>
          /\ local' = (k :> loc) @@ local
    /\ updating' = updating \cup {k}
    /\ task' = [task EXCEPT ![k] = "collected"]
    /\ completion_order' = Append(completion_order, k)
    /\ UNCHANGED <<laterVars, disk, incr_count, pc, texts, max_concurrent, semaphore,
                   submitted, outcome>>

\* The rest of the same update_file_status call: the counter is written,
\* is_completed recomputed and the checkpoint saved.
CollectFinish(k) ==
    /\ k \in updating
    /\ current_checkpoint' = <<UpdateCounters(current_checkpoint[1], local[k])>>
    /\ disk' = SaveCheckpoint(current_checkpoint')
    /\ incr_count' = CountIncrement(incr_count, local[k])
    /\ updating' = updating \ {k}
    /\ UNCHANGED <<laterVars, pc, texts, max_concurrent, semaphore, submitted, task,
                   outcome, results, local, completion_order>>

\* as_completed is exhausted, the executor is shut down, the results are
\* sorted by custom_id and returned.
Finish ==
    /\ pc = "collect"
    /\ \A k \in 1..texts : task[k] = "collected"
    /\ updating = {}
    /\ results' = SortByCustomId(results)
    /\ pc' = "done"
    /\ UNCHANGED <<laterVars, ckptVars, texts, max_concurrent, semaphore, submitted, task,
                   outcome, updating, local, completion_order>>

BatchNext ==
    \/ CreateProcessingCheckpoint
    \/ StartBatch
    \/ Submit
    \/ \E k \in 1..texts : WorkerTake(k)
    \/ \E k \in 1..texts : Acquire(k)
    \/ \E k \in 1..texts : Return(k)
    \/ \E k \in 1..texts : Collect(k)
    \/ \E k \in 1..texts : CollectFinish(k)
    \/ Finish

BatchSpec == BatchInit /\ [][BatchNext]_vars

\* Threads are scheduled by the operating system and every call to the
\* transform eventually returns or raises.
FairBatchSpec == BatchSpec /\ WF_vars(BatchNext)

\* ------------------------------------------------ claims on the manager API

StatusRank(st) == IF st = "pending" THEN 0 ELSE IF st = "processing" THEN 1 ELSE 2

\* C1: work-item status is monotonic under update_file_status: an item only
\* moves forward along pending -> processing -> {completed, failed}, and once it
\* is completed or failed no later update changes its status.
C1_StatusMonotonic ==
    [][ (current_checkpoint # <<>> /\ current_checkpoint' # <<>>) =>
            \A k \in 1..Len(current_checkpoint[1].files_state) :
                LET old == current_checkpoint[1].files_state[k].status
                    new == current_checkpoint'[1].files_state[k].status
                IN new = old \/ (StatusRank(old) < 2 /\ StatusRank(new) > StatusRank(old)) ]_vars

\* C2: in every state reached by create and any sequence of updates,
\* completed_files + failed_files <= total_files.
C2_CountersWithinTotal ==
    current_checkpoint # <<>> =>
        current_checkpoint[1].completed_files + current_checkpoint[1].failed_files
            <= current_checkpoint[1].total_files

\* C3: is_completed is true if and only if completed_files + failed_files
\* equals total_files, for every session size including zero items.
C3_IsCompletedIff ==
    current_checkpoint # <<>> =>
        (current_checkpoint[1].is_completed <=>
            current_checkpoint[1].completed_files + current_checkpoint[1].failed_files
                = current_checkpoint[1].total_files)

\* C4: over the whole life of a session each work item causes at most one
\* increment, in total, of completed_files or failed_files.
C4_OneIncrementPerItem ==
    \A k \in DOMAIN incr_count : incr_count[k] <= 1

\* ------------------------------------------------- claims on the dispatcher

RECURSIVE SumSeq(_)
SumSeq(q) == IF Len(q) = 0 THEN 0 ELSE q[1] + SumSeq(Tail(q))

\* C5: at no instant are more than max_concurrent calls to the external
\* transform in flight; the remaining items wait.
C5_InFlightBounded == Cardinality(InFlight) <= max_concurrent

C5_Witness ==
    /\ texts > max_concurrent
    /\ Cardinality(InFlight) = max_concurrent
    /\ \E k \in 1..texts : task[k] = "queued"

\* C6: whenever an item's transform call is in flight, its checkpoint status is
\* processing (the dispatcher marks it processing right before the call).
C6_InFlightIsProcessing ==
    \A k \in InFlight : current_checkpoint[1].files_state[k].status = "processing"

\* C7: an item whose transform call failed is recorded in the checkpoint as a
\* failed work item carrying the captured error message, and failed_files counts
\* it; the other items are still processed.
C7_FailureRecordedAsFailed ==
    /\ \A k \in 1..texts :
          (task[k] = "collected" /\ k \notin updating /\ outcome[k] = "error") =>
              /\ current_checkpoint[1].files_state[k].status = "failed"
              /\ current_checkpoint[1].files_state[k].error_message = "exception"
    /\ pc = "done" =>
          current_checkpoint[1].failed_files
              = Cardinality({k \in 1..texts : outcome[k] = "error"})

\* C8: executions of update_file_status never overlap during a batch, so no
\* increment and no item update is lost: between updates the counters account
\* for every increment executed and every collected item holds the status its
\* update wrote.
C8_UpdatesSerialized ==
    /\ Cardinality(updating) <= 1
    /\ (updating = {} /\ current_checkpoint # <<>>) =>
          /\ current_checkpoint[1].completed_files + current_checkpoint[1].failed_files
                = SumSeq(incr_count)
          /\ \A k \in 1..texts : task[k] = "collected" =>
                current_checkpoint[1].files_state[k].status \in {"completed", "failed"}

C8_Witness ==
    /\ updating # {}
    /\ \E k \in 1..texts : task[k] = "done"
    /\ SumSeq(incr_count) >= 1

\* C9: the returned list is in strictly ascending order of custom_id, whatever
\* the order in which the workers completed.
C9_SortedByCustomId ==
    pc = "done" =>
        \A j \in 1..(Len(results) - 1) :
            StrLess(results[j].custom_id, results[j + 1].custom_id)

C9_Witness ==
    /\ pc = "done"
    /\ Len(results) >= 2
    /\ \E j \in 1..(Len(completion_order) - 1) :
          completion_order[j] > completion_order[j + 1]

\* C10: a batch over n items, each of whose transform calls returns or raises,
\* eventually terminates and returns exactly n outcomes, one per input item.
C10_TerminatesWithAllOutcomes ==
    <>( /\ pc = "done"
        /\ Len(results) = texts
        /\ \A k \in 1..texts :
              Cardinality({j \in 1..Len(results) : results[j].custom_id = CustomId(k - 1)}) = 1 )

C10_Witness ==
    /\ pc = "done"
    /\ texts >= 2
    /\ Len(results) = texts
    /\ \A k \in 1..texts : outcome[k] = "error"

\* ------------------------------------- CrashSpec: the persisted record

\* 24 * 3600 of _cleanup_old_checkpoints; the clock of the model counts days.
DaySeconds == 24 * 3600

\* The configurations handed to create_checkpoint (run_extraction_only builds
\* a dict of strings and numbers; two different ones are told apart).
ProcessingConfig == "processing_config"

\* The directory and the output directory given to the manager.
OutputDirectory == "batch_results"

\* sorted(files)
RECURSIVE InsertPath(_, _)
InsertPath(x, sorted) ==
    IF Len(sorted) = 0 THEN <<x>>
    ELSE IF x < sorted[1] THEN <<x>> \o sorted
    ELSE <<sorted[1]>> \o InsertPath(x, Tail(sorted))

RECURSIVE SortedFiles(_)
SortedFiles(files) ==
    IF Len(files) = 0 THEN <<>>
    ELSE InsertPath(files[Len(files)], SortedFiles(SubSeq(files, 1, Len(files) - 1)))

\* _generate_checkpoint_id: f"checkpoint_{int(time.time())}_{md5(sorted(files), config)[:8]}";
\* the digest is identified with the content it is computed from.
generate_checkpoint_id(files, config, t) ==
    <<t * DaySeconds, <<SortedFiles(files), config>>>>

\* _generate_session_id
generate_session_id(t) == <<"session", t * DaySeconds>>

\* create_checkpoint with every field of BatchProcessingCheckpoint.
create_full_checkpoint(files, readable, config, t) ==
    create_checkpoint(files, readable) @@
    [checkpoint_id |-> generate_checkpoint_id(files, config, t),
     session_id |-> generate_session_id(t),
     create_time |-> t, update_time |-> t,
     processing_config |-> config,
     current_file_index |-> 0,
     output_directory |-> OutputDirectory]

\* asdict + json.dump: the document is a positional encoding of the fields,
\* each FileProcessingState object becoming a plain entry.
JsonDump(cp) ==
    <<cp.checkpoint_id, cp.session_id, cp.create_time, cp.update_time,
      cp.total_files, cp.completed_files, cp.failed_files, cp.processing_config,
      [k \in 1..Len(cp.files_state) |->
          <<cp.files_state[k].file_path, cp.files_state[k].status,
            cp.files_state[k].error_message, cp.files_state[k].result_data>>],
      cp.current_file_index, cp.output_directory, cp.is_completed>>

LoadFileStateByPosition(e) ==
    [file_path |-> e[1], status |-> e[3], error_message |-> e[2], result_data |-> e[4]]

\* FileProcessingState(**file_data): every field is set from the entry's field
\* of the same name.
LoadFileState(e) ==
    [file_path |-> e[1], status |-> e[2], error_message |-> e[3], result_data |-> e[4]]

\* json.load followed by the rebuilding of load_checkpoint (lines 227-237).
JsonLoad(doc) ==
    [checkpoint_id |-> doc[1], session_id |-> doc[2], create_time |-> doc[3],
     update_time |-> doc[4], total_files |-> doc[5], completed_files |-> doc[6],
     failed_files |-> doc[7], processing_config |-> doc[8],
     files_state |-> [k \in 1..Len(doc[9]) |-> LoadFileState(doc[9][k])],
     current_file_index |-> doc[10], output_directory |-> doc[11],
     is_completed |-> doc[12]]

\* data.get('is_completed', False) on a parsed document
DocIsCompleted(doc) == doc[12]

\* open(checkpoint_file, 'w'): the file exists and is empty until json.dump
\* has written the whole document; an empty or partial file does not parse.
OpenForWrite(d, id, t) ==
    (id :> [kind |-> "corrupt", doc |-> <<>>, mtime |-> t]) @@ d

\* json.dump has written the document and the file is closed.
WriteDocument(d, id, cp, t) ==
    (id :> [kind |-> "json", doc |-> JsonDump(cp), mtime |-> t]) @@ d

CleanupAgeInclusive(e, max_age_days, auto_clean_completed, t) ==
    LET file_age == (t - e.mtime) * DaySeconds
        max_age_seconds == max_age_days * 24 * 3600
    IN IF auto_clean_completed /\ e.kind = "corrupt" THEN FALSE
       ELSE IF auto_clean_completed /\ DocIsCompleted(e.doc) THEN TRUE
       ELSE file_age >= max_age_seconds

\* One file of _cleanup_old_checkpoints: with auto_clean_completed the file is
\* parsed first (a file that does not parse raises, is logged and skipped) and
\* removed when is_completed; otherwise it is removed when older than
\* max_age_days.
CleanupRemoves(e, max_age_days, auto_clean_completed, t) ==
    LET file_age == (t - e.mtime) * DaySeconds
        max_age_seconds == max_age_days * 24 * 3600
    IN IF auto_clean_completed /\ e.kind = "corrupt" THEN FALSE
       ELSE IF auto_clean_completed /\ DocIsCompleted(e.doc) THEN TRUE
       ELSE file_age > max_age_seconds

cleanup_old_checkpoints(d, max_age_days, auto_clean_completed, t) ==
    LET keep == {id \in DOMAIN d :
                    ~CleanupRemoves(d[id], max_age_days, auto_clean_completed, t)}
    IN [id \in keep |-> d[id]]

LoadClearsOnFailure(d, id, current) ==
    IF id \notin DOMAIN d THEN [ok |-> FALSE, cp |-> current]
    ELSE IF d[id].kind = "corrupt" THEN [ok |-> FALSE, cp |-> <<>>]
    ELSE [ok |-> TRUE, cp |-> <<JsonLoad(d[id].doc)>>]

\* load_checkpoint: [ok, cp]; nothing is assigned unless the whole record was
\* read and rebuilt.
load_checkpoint(d, id, current) ==
    IF id \notin DOMAIN d THEN [ok |-> FALSE, cp |-> current]
    ELSE IF d[id].kind = "corrupt" THEN [ok |-> FALSE, cp |-> current]
    ELSE [ok |-> TRUE, cp |-> <<JsonLoad(d[id].doc)>>]

\* The orders in which the n sources of a batch can be handed over.
FileLists(n) ==
    {f \in [1..n -> 0..(n - 1)] : \A i, j \in 1..n : i # j => f[i] # f[j]}

\* An id no file of the directory has.
MissingId == <<0, <<<<>>, "missing">>>>

\* A process has started; nothing is in memory and the directory is empty.
CrashInit ==
    /\ current_checkpoint = <<>>
    /\ disk = <<>>
    /\ incr_count = <<>>
    /\ pc = "idle"
    /\ texts \in 1..MaxStoreFiles
    /\ max_concurrent = 0
    /\ semaphore = 0
    /\ submitted = 0
    /\ task = <<>>
    /\ outcome = <<>>
    /\ results = <<>>
    /\ updating = {}
    /\ local = <<>>
    /\ completion_order = <<>>
    /\ now = 0
    /\ dir = <<>>
    /\ op = [name |-> "init", arg |-> <<>>, ret |-> <<>>]
    /\ acked = <<>>
    /\ NoSplitter
    /\ NoExtraction

\* create_checkpoint up to the open() of _save_checkpoint; every source exists.
StoreCreate ==
    /\ pc = "idle"
    /\ \E files \in FileLists(texts) :
          LET cp == create_full_checkpoint(files, 0..(texts - 1), ProcessingConfig, now) IN
          /\ current_checkpoint' = <<cp>>
          /\ dir' = OpenForWrite(dir, cp.checkpoint_id, now)
          /\ op' = [name |-> "create", arg |-> <<>>, ret |-> cp.checkpoint_id]
    /\ pc' = "saving"
    /\ UNCHANGED <<splitVars, ocrVars, disk, incr_count, texts, max_concurrent, semaphore, submitted, task, outcome,
                   results, updating, local, completion_order, now, acked>>

\* update_file_status and save_checkpoint up to the open() of _save_checkpoint:
\* the collector's one update of an item, completed or failed.
StoreUpdate ==
    /\ pc = "batch"
    /\ \E path \in 0..(texts - 1) : \E status \in {"completed", "failed"} :
          LET cp == current_checkpoint[1]
              new == [update_file_status(cp, path, status, "result", "error")
                        EXCEPT !.update_time = now] IN
          /\ cp.files_state[FindState(cp, path)].status = "pending"
          /\ current_checkpoint' = <<new>>
          /\ dir' = OpenForWrite(dir, cp.checkpoint_id, now)
          /\ op' = [name |-> "update", arg |-> <<>>, ret |-> <<>>]
    /\ pc' = "saving"
    /\ UNCHANGED <<splitVars, ocrVars, disk, incr_count, texts, max_concurrent, semaphore, submitted,
                   task, outcome, results, updating, local, completion_order, now,
                   acked>>

\* json.dump completes and the call returns.
SaveFinish ==
    /\ pc = "saving"
    /\ dir' = WriteDocument(dir, current_checkpoint[1].checkpoint_id,
                            current_checkpoint[1], now)
    /\ acked' = current_checkpoint
    /\ pc' = "batch"
    /\ UNCHANGED <<splitVars, ocrVars, ckptVars, texts, max_concurrent, semaphore, submitted, task,
                   outcome, results, updating, local, completion_order, now, op>>

\* The process stops, between two calls or in the middle of a save.
Crash ==
    /\ pc \in {"idle", "batch", "saving"}
    /\ current_checkpoint' = <<>>
    /\ pc' = "stopped"
    /\ op' = [name |-> "crash", arg |-> <<>>, ret |-> <<>>]
    /\ UNCHANGED <<splitVars, ocrVars, disk, incr_count, texts, max_concurrent, semaphore, submitted,
                   task, outcome, results, updating, local, completion_order,
                   now, dir, acked>>

\* Some days later a new process builds a CheckpointManager: __init__ runs
\* _cleanup_old_checkpoints() with its defaults (7 days, auto_clean_completed).
Restart ==
    /\ pc = "stopped"
    /\ \E t \in now..MaxClock :
          /\ now' = t
          /\ dir' = cleanup_old_checkpoints(dir, 7, TRUE, t)
    /\ op' = [name |-> "init", arg |-> <<>>, ret |-> <<>>]
    /\ pc' = "idle"
    /\ UNCHANGED <<splitVars, ocrVars, ckptVars, texts, max_concurrent, semaphore, submitted, task,
                   outcome, results, updating, local, completion_order, acked>>

\* load_checkpoint(checkpoint_id) of a file of the directory or of a missing
\* one: before the batch (main.py resume_from_checkpoint) or right after create.
Load ==
    /\ \/ pc = "idle"
       \/ pc = "batch" /\ op.name = "create"
    /\ \E id \in DOMAIN dir \cup {MissingId} :
          LET r == load_checkpoint(dir, id, current_checkpoint) IN
          /\ current_checkpoint' = r.cp
          /\ op' = [name |-> "load", arg |-> id, ret |-> r.ok]
    /\ UNCHANGED <<splitVars, ocrVars, disk, incr_count, batchVars, now, dir, acked>>

CrashNext ==
    \/ StoreCreate
    \/ StoreUpdate
    \/ SaveFinish
    \/ Crash
    \/ Restart
    \/ Load

CrashSpec == CrashInit /\ [][CrashNext]_vars

\* C11: if the process stops during a batch, between two updates or in the
\* middle of a save, the persisted record still loads and holds the status and
\* result of every item whose update had returned.
C11_RecordSurvivesCrash ==
    (/\ pc = "idle"
     /\ op.name = "load"
     /\ acked # <<>>
     /\ op.arg = acked[1].checkpoint_id
     /\ ~acked[1].is_completed) =>
        /\ op.ret = TRUE
        /\ current_checkpoint # <<>>
        /\ current_checkpoint[1].files_state = acked[1].files_state

\* The sources (sorted) and the configuration a persisted session was created from.
CreatedFrom(doc) ==
    LET cp == JsonLoad(doc)
    IN <<SortedFiles([k \in 1..Len(cp.files_state) |-> cp.files_state[k].file_path]),
         cp.processing_config>>

\* C14: the identifier create returns is a function of the sorted sources and
\* the configuration alone: sessions created from the same sources and the same
\* configuration, at any two times, carry the same identifier.
C14_SessionIdDeterministic ==
    \A a, b \in DOMAIN dir :
        (/\ dir[a].kind = "json"
         /\ dir[b].kind = "json"
         /\ CreatedFrom(dir[a].doc) = CreatedFrom(dir[b].doc)) => a = b

\* C15: when create returns (BatchSpec, pc = "batch") the session holds one
\* item per input, in input order, every one pending, total_files is the number
\* of inputs, both counters are 0 and the persisted record is the session, for
\* every input list, virtual labels included.
C15_CreateAllPending ==
    pc = "batch" =>
        /\ current_checkpoint # <<>>
        /\ LET cp == current_checkpoint[1] IN
              /\ Len(cp.files_state) = texts
              /\ \A k \in 1..texts :
                    /\ cp.files_state[k].file_path = VirtualFile(k - 1)
                    /\ cp.files_state[k].status = "pending"
              /\ cp.total_files = texts
              /\ cp.completed_files = 0
              /\ cp.failed_files = 0
        /\ disk = current_checkpoint

C17_FailedLoadKeepsSession ==
    [][(/\ op'.name = "load"
        /\ dir' = dir
        /\ pc' = pc
        /\ (op'.arg \notin DOMAIN dir \/ dir[op'.arg].kind = "corrupt")) =>
           /\ op'.ret = FALSE
           /\ current_checkpoint' = current_checkpoint]_vars

C17_Witness ==
    /\ op.name = "load"
    /\ op.ret = FALSE
    /\ op.arg \in DOMAIN dir
    /\ dir[op.arg].kind = "corrupt"
    /\ current_checkpoint # <<>>

\* ------------------------------------------ ResumeSpec: resuming a session
\* The session an interrupted run left behind: created for n texts, the
\* updates of the items in done have returned.
RECURSIVE ApplyUpdates(_, _, _)
ApplyUpdates(cp, n, done) ==
    IF n = 0 THEN cp
    ELSE LET before == ApplyUpdates(cp, n - 1, done) IN
         IF n \in done
         THEN update_file_status(before, VirtualFile(n - 1), "completed", "result", "None")
         ELSE before

PersistedSession(n, done, t) ==
    ApplyUpdates(create_full_checkpoint([k \in 1..n |-> VirtualFile(k - 1)],
                                        0..(n - 1), ProcessingConfig, t),
                 n, done)

\* The status the record being resumed holds for item k.
PersistedStatus(k) ==
    LET cp == JsonLoad(dir[op.arg].doc)
    IN cp.files_state[FindState(cp, VirtualFile(k - 1))].status

\* A day after the interrupted run: its record is in the directory, not all of
\* its items are done (main.py offers the sessions that are not completed).
ResumeInit ==
    /\ current_checkpoint = <<>>
    /\ disk = <<>>
    /\ incr_count = <<>>
    /\ pc = "resume"
    /\ texts \in 1..MaxResumeTexts
    /\ max_concurrent \in 1..MaxConcurrent
    /\ semaphore = 5
    /\ submitted = 0
    /\ task = [k \in 1..texts |-> "new"]
    /\ outcome = [k \in 1..texts |-> "none"]
    /\ results = <<>>
    /\ updating = {}
    /\ local = <<>>
    /\ completion_order = <<>>
    /\ now = 1
    /\ \E done \in (SUBSET (1..texts)) \ {1..texts} :
          LET cp == PersistedSession(texts, done, 0)
          IN dir = WriteDocument(<<>>, cp.checkpoint_id, cp, 0)
    /\ op = [name |-> "init", arg |-> <<>>, ret |-> <<>>]
    /\ acked = <<>>
    /\ NoSplitter
    /\ NoExtraction

\* resume_from_checkpoint: the chosen record is loaded, its progress is shown
\* and False is returned; run() goes on to the new task with the same texts.
ResumeFromCheckpoint ==
    /\ pc = "resume"
    /\ \E id \in DOMAIN dir :
          LET r == load_checkpoint(dir, id, current_checkpoint) IN
          /\ current_checkpoint' = r.cp
          /\ op' = [name |-> "load", arg |-> id, ret |-> r.ok]
    /\ pc' = "start"
    /\ UNCHANGED <<splitVars, ocrVars, disk, incr_count, texts, max_concurrent, semaphore, submitted,
                   task, outcome, results, updating, local, completion_order,
                   now, dir, acked>>

ResumeNext ==
    \/ ResumeFromCheckpoint
    \/ BatchNext

ResumeSpec == ResumeInit /\ [][ResumeNext]_vars

\* C12: after a persisted session was loaded for resuming, the transform is
\* invoked only for items whose persisted status is pending, never for an item
\* the record holds as completed or failed.
C12_OnlyPendingDispatched ==
    (op.name = "load" /\ op.ret = TRUE) =>
        \A k \in InFlight : PersistedStatus(k) = "pending"

\* ------------------------------------- InterruptSpec: Ctrl-C during a batch
\* KeyboardInterrupt is raised in the calling thread, inside _submit_batch_tasks
\* or the as_completed loop (possibly in the middle of an update). It is not an
\* Exception, so no handler of the dispatcher catches it: the loop is left and
\* the "with ThreadPoolExecutor" block is exited through shutdown(wait=True),
\* which lets the pool threads go on until the queue is empty. op.arg keeps
\* the state of every item at the time of the interrupt.
Interrupt ==
    /\ pc \in {"submit", "collect"}
    /\ pc' = "interrupted"
    /\ updating' = {}
    /\ op' = [name |-> "interrupt", arg |-> task, ret |-> <<>>]
    /\ UNCHANGED <<splitVars, ocrVars, ckptVars, texts, max_concurrent, semaphore, submitted, task,
                   outcome, results, local, completion_order, now, dir, acked>>

InterruptNext ==
    \/ Interrupt
    \/ BatchNext

InterruptSpec == BatchInit /\ [][InterruptNext]_vars

\* The pool threads have nothing left to do.
PoolQuiet == \A k \in 1..texts : task[k] \notin {"queued", "running", "inflight"}

\* The session holds a final status for item k.
Recorded(k) ==
    /\ current_checkpoint # <<>>
    /\ LET cp == current_checkpoint[1]
       IN cp.files_state[FindState(cp, VirtualFile(k - 1))].status
             = (IF outcome[k] = "raised" THEN "failed" ELSE "completed")

\* C13: after a user interrupt no item that had not started is handed to the
\* transform, and every item that was in flight has its completion or failure
\* recorded in the session once the pool has finished.
C13_InterruptStopsDispatch ==
    op.name = "interrupt" =>
        /\ \A k \in 1..texts :
              op.arg[k] \in {"new", "queued"} => task[k] \in {"new", "queued"}
        /\ PoolQuiet =>
              \A k \in 1..texts : op.arg[k] = "inflight" => Recorded(k)

\* ------------------------------- DirSpec: listing and cleaning the directory
\* The entry list_checkpoints builds for one parsed record.
Summary(doc) ==
    [checkpoint_id |-> doc[1], create_time |-> doc[3], update_time |-> doc[4],
     total_files |-> doc[5], completed_files |-> doc[6], failed_files |-> doc[7],
     is_completed |-> DocIsCompleted(doc), progress |-> <<doc[6], doc[5]>>]

\* checkpoints.sort(key=update_time, reverse=True): stable, an entry goes
\* behind the entries whose update_time is not smaller.
RECURSIVE InsertByUpdateTime(_, _)
InsertByUpdateTime(x, sorted) ==
    IF Len(sorted) = 0 THEN <<x>>
    ELSE IF x.update_time > sorted[1].update_time THEN <<x>> \o sorted
    ELSE <<sorted[1]>> \o InsertByUpdateTime(x, Tail(sorted))

RECURSIVE SortByUpdateTime(_)
SortByUpdateTime(seq) ==
    IF Len(seq) = 0 THEN <<>>
    ELSE InsertByUpdateTime(seq[Len(seq)], SortByUpdateTime(SubSeq(seq, 1, Len(seq) - 1)))

\* The loop of list_checkpoints over the files in glob order.
RECURSIVE ListStopsAtCorrupt(_, _)
ListStopsAtCorrupt(d, order) ==
    IF Len(order) = 0 THEN <<>>
    ELSE IF d[order[1]].kind = "corrupt" THEN <<>>
    ELSE <<Summary(d[order[1]].doc)>> \o ListStopsAtCorrupt(d, Tail(order))

\* A file that does not parse raises inside the per-file try and is skipped.
RECURSIVE CollectSummaries(_, _)
CollectSummaries(d, order) ==
    IF Len(order) = 0 THEN <<>>
    ELSE IF d[order[1]].kind = "corrupt" THEN CollectSummaries(d, Tail(order))
    ELSE <<Summary(d[order[1]].doc)>> \o CollectSummaries(d, Tail(order))

list_checkpoints(d, order) == SortByUpdateTime(CollectSummaries(d, order))

\* The orders in which glob can yield the files of the directory.
GlobOrders(d) ==
    {f \in [1..Cardinality(DOMAIN d) -> DOMAIN d] :
        \A i, j \in DOMAIN f : i # j => f[i] # f[j]}

\* The retention windows tried, in days: none, one day, the default.
RetentionDays == {0, 1, 7}

\* What a slot of the directory can hold for the session created on day t:
\* a record saved on day m, parsable (the updates of done returned) or cut
\* short by a stop in the middle of that save.
RecordsOf(t) ==
    {[kind |-> "corrupt", doc |-> <<>>, mtime |-> m] : m \in t..MaxClock}
    \cup
    {[kind |-> "json",
      doc |-> JsonDump([PersistedSession(MaxStoreFiles, done, t) EXCEPT !.update_time = m]),
      mtime |-> m] : m \in t..MaxClock, done \in SUBSET (1..MaxStoreFiles)}

SessionId(t) ==
    PersistedSession(MaxStoreFiles, {}, t).checkpoint_id

\* The directories earlier runs can have left behind.
Directories ==
    {d \in [0..MaxClock -> UNION {RecordsOf(t) : t \in 0..MaxClock} \cup {<<>>}] :
        \A t \in 0..MaxClock : d[t] = <<>> \/ d[t] \in RecordsOf(t)}

DirectoryOf(d) ==
    LET present == {t \in 0..MaxClock : d[t] # <<>>}
        ids == {SessionId(t) : t \in present}
    IN [id \in ids |-> d[CHOOSE t \in present : SessionId(t) = id]]

DirInit ==
    /\ current_checkpoint = <<>>
    /\ disk = <<>>
    /\ incr_count = <<>>
    /\ pc = "idle"
    /\ texts = 0
    /\ max_concurrent = 0
    /\ semaphore = 0
    /\ submitted = 0
    /\ task = <<>>
    /\ outcome = <<>>
    /\ results = <<>>
    /\ updating = {}
    /\ local = <<>>
    /\ completion_order = <<>>
    /\ now = MaxClock
    /\ \E d \in Directories : dir = DirectoryOf(d)
    /\ op = [name |-> "init", arg |-> <<>>, ret |-> <<>>]
    /\ acked = <<>>
    /\ NoSplitter
    /\ NoExtraction

\* a day passes
Tick ==
    /\ now < MaxClock + 1
    /\ now' = now + 1
    /\ op' = [name |-> "tick", arg |-> <<>>, ret |-> <<>>]
    /\ UNCHANGED <<splitVars, ocrVars, ckptVars, batchVars, dir, acked>>

\* list_checkpoints()
List ==
    /\ \E order \in GlobOrders(dir) :
          op' = [name |-> "list", arg |-> <<>>, ret |-> list_checkpoints(dir, order)]
    /\ UNCHANGED <<splitVars, ocrVars, ckptVars, batchVars, now, dir, acked>>

\* _cleanup_old_checkpoints(max_age_days, auto_clean_completed); op.ret keeps
\* the files it logged as deleted.
Cleanup ==
    /\ \E max_age_days \in RetentionDays : \E auto_clean_completed \in BOOLEAN :
          /\ dir' = cleanup_old_checkpoints(dir, max_age_days, auto_clean_completed, now)
          /\ op' = [name |-> "cleanup", arg |-> <<max_age_days, auto_clean_completed>>,
                    ret |-> DOMAIN dir \ DOMAIN dir']
    /\ UNCHANGED <<splitVars, ocrVars, ckptVars, batchVars, now, acked>>

DirNext ==
    \/ Tick
    \/ List
    \/ Cleanup
    \/ Load

DirSpec == DirInit /\ [][DirNext]_vars

Parsable(d) == {id \in DOMAIN d : d[id].kind = "json"}

\* Age of a record in seconds at time t, by the modification time of its file.
AgeSeconds(e, t) == (t - e.mtime) * DaySeconds

\* C18: a record that does not parse never makes list or cleanup fail: list
\* returns the summaries of exactly the parsable records, newest update first;
\* cleanup treats every parsable record as it would without the corrupt one;
\* a load fails for the corrupt record and for no parsable one.
C18_CorruptRecordSkipped ==
    [][/\ op'.name = "list" =>
            /\ Len(op'.ret) = Cardinality(Parsable(dir))
            /\ {op'.ret[i] : i \in 1..Len(op'.ret)}
                  = {Summary(dir[id].doc) : id \in Parsable(dir)}
            /\ \A i, j \in 1..Len(op'.ret) :
                  i < j => op'.ret[i].update_time >= op'.ret[j].update_time
       /\ (op'.name = "cleanup" /\ Parsable(dir) # DOMAIN dir) =>
            \A id \in Parsable(dir) :
                id \in DOMAIN dir' <=>
                    id \in DOMAIN cleanup_old_checkpoints(
                               [x \in Parsable(dir) |-> dir[x]],
                               op'.arg[1], op'.arg[2], now)
       /\ (op'.name = "load" /\ op'.arg \in DOMAIN dir) =>
            (op'.ret = FALSE <=> dir[op'.arg].kind = "corrupt")]_vars

C18_Witness ==
    /\ op.name = "list"
    /\ Parsable(dir) # DOMAIN dir
    /\ Len(op.ret) >= 1

Lower(c) == IF c = "A" THEN "a" ELSE IF c = "B" THEN "b" ELSE c

IsUpper(c) == c \in {"A", "B"}

\* str.lower()
LowerStr(str) == [i \in 1..Len(str) |-> Lower(str[i])]

\* the characters str.strip(), str.split() and the pattern \s take for white space
Whitespace == {" ", "\n", "\r", "\t"}

\* str.strip()
RECURSIVE LStrip(_)
LStrip(str) ==
    IF Len(str) = 0 THEN str
    ELSE IF str[1] \in Whitespace THEN LStrip(Tail(str))
    ELSE str

RECURSIVE RStrip(_)
RStrip(str) ==
    IF Len(str) = 0 THEN str
    ELSE IF str[Len(str)] \in Whitespace THEN RStrip(SubSeq(str, 1, Len(str) - 1))
    ELSE str

Strip(str) == RStrip(LStrip(str))

\* TERM_PROCESSING["case_sensitive_matching"]
case_sensitive == FALSE

\* The term records a transform can return: eng_term and zh_term are "" when
\* the key is absent (term.get(..., "")), term is <<>> when the key is absent.
UniTerm(str) == [eng_term |-> <<>>, zh_term |-> <<>>, term |-> <<str>>]

BiTerm(eng, zh) == [eng_term |-> eng, zh_term |-> zh, term |-> <<>>]

TermPool ==
    {UniTerm(<<"a">>), UniTerm(<<"A">>), UniTerm(<<" ", "a">>),
     UniTerm(<<"a", "|", "b">>),
     BiTerm(<<"a">>, <<"b">>), BiTerm(<<"A">>, <<"b">>), BiTerm(<<"a">>, <<>>)}

KeyCaseSensitive(term) ==
    LET eng_term == Strip(term.eng_term)
        zh_term == Strip(term.zh_term)
    IN IF eng_term = <<>> /\ zh_term = <<>> /\ term.term # <<>>
       THEN Strip(term.term[1])
       ELSE eng_term \o <<"|">> \o zh_term

\* The key _collect_all_terms files a term under (lines 409-425).
TermKey(term) ==
    LET eng_term == Strip(term.eng_term)
        zh_term == Strip(term.zh_term)
    IN IF eng_term = <<>> /\ zh_term = <<>> /\ term.term # <<>>
       THEN LET single_term == Strip(term.term[1])
            IN IF case_sensitive THEN single_term ELSE LowerStr(single_term)
       ELSE LET eng_key == IF case_sensitive THEN eng_term ELSE LowerStr(eng_term)
                zh_key == zh_term
            IN eng_key \o <<"|">> \o zh_key

\* The entry appended to all_terms[term_key]; fmt tells which keys the dict has.
TermEntry(term, result) ==
    LET eng_term == Strip(term.eng_term)
        zh_term == Strip(term.zh_term)
    IN IF eng_term = <<>> /\ zh_term = <<>> /\ term.term # <<>>
       THEN [fmt |-> "term", original_term |-> term.term[1],
             original_eng_term |-> <<>>, original_zh_term |-> <<>>,
             source_id |-> result.custom_id, source_file |-> result.source_file]
       ELSE [fmt |-> "bilingual", original_term |-> <<>>,
             original_eng_term |-> eng_term, original_zh_term |-> zh_term,
             source_id |-> result.custom_id, source_file |-> result.source_file]

\* all_terms is a dict: keys in order of first insertion, one list per key.
AddTerm(all_terms, key, entry) ==
    IF \E g \in 1..Len(all_terms) : all_terms[g].key = key
    THEN [g \in 1..Len(all_terms) |->
             IF all_terms[g].key = key
             THEN [all_terms[g] EXCEPT !.term_list = Append(@, entry)]
             ELSE all_terms[g]]
    ELSE Append(all_terms, [key |-> key, term_list |-> <<entry>>])

RECURSIVE AddTermsOf(_, _, _)
AddTermsOf(all_terms, result, n) ==
    IF n = 0 THEN all_terms
    ELSE AddTerm(AddTermsOf(all_terms, result, n - 1),
                 TermKey(result.terms[n]), TermEntry(result.terms[n], result))

RECURSIVE collect_all_terms(_)
collect_all_terms(rs) ==
    IF Len(rs) = 0 THEN <<>>
    ELSE AddTermsOf(collect_all_terms(SubSeq(rs, 1, Len(rs) - 1)),
                    rs[Len(rs)], Len(rs[Len(rs)].terms))

\* _select_best_term: the first original_term that starts with an upper-case
\* letter, else the first one; term_info["original_term"] raises KeyError on
\* an entry that has no such key.
RECURSIVE ScanBestTerm(_, _)
ScanBestTerm(term_list, i) ==
    IF i > Len(term_list)
    THEN [ok |-> TRUE, value |-> term_list[1].original_term]
    ELSE IF term_list[i].fmt # "term" THEN [ok |-> FALSE, value |-> <<>>]
    ELSE IF term_list[i].original_term # <<>> /\ IsUpper(term_list[i].original_term[1])
    THEN [ok |-> TRUE, value |-> term_list[i].original_term]
    ELSE ScanBestTerm(term_list, i + 1)

select_best_term(term_list) == ScanBestTerm(term_list, 1)

\* _select_best_bilingual_term(term_list, "original_eng_term"): .get() yields ""
\* for an entry without the key.
RECURSIVE ScanBestBilingual(_, _)
ScanBestBilingual(term_list, i) ==
    IF i > Len(term_list) THEN term_list[1].original_eng_term
    ELSE LET term_value == IF term_list[i].fmt = "bilingual"
                           THEN term_list[i].original_eng_term ELSE <<>>
         IN IF term_value # <<>> /\ IsUpper(term_value[1]) THEN term_value
            ELSE ScanBestBilingual(term_list, i + 1)

select_best_bilingual_term(term_list) == ScanBestBilingual(term_list, 1)

CollectFirstSourceOnly(term_list) == {term_list[1].source_file}

\* _collect_source_files: list(set(...)), kept as the set.
collect_source_files(term_list) ==
    {term_list[i].source_file : i \in 1..Len(term_list)}

\* _merge_term_info: the format is decided by the first entry of the group.
merge_term_info(term_list) ==
    IF term_list[1].fmt = "bilingual"
    THEN [ok |-> TRUE, fmt |-> "bilingual", term |-> <<>>,
          eng_term |-> IF Len(term_list) = 1 THEN term_list[1].original_eng_term
                       ELSE select_best_bilingual_term(term_list),
          zh_term |-> term_list[1].original_zh_term,
          source_files |-> collect_source_files(term_list)]
    ELSE LET best == IF Len(term_list) = 1
                     THEN [ok |-> TRUE, value |-> term_list[1].original_term]
                     ELSE select_best_term(term_list)
         IN [ok |-> best.ok, fmt |-> "term", term |-> best.value,
             eng_term |-> <<>>, zh_term |-> <<>>,
             source_files |-> collect_source_files(term_list)]

\* _merge_duplicate_terms
merge_duplicate_terms(all_terms) ==
    [g \in 1..Len(all_terms) |-> merge_term_info(all_terms[g].term_list)]

RECURSIVE DuplicateCount(_)
DuplicateCount(all_terms) ==
    IF Len(all_terms) = 0 THEN 0
    ELSE DuplicateCount(Tail(all_terms)) + (Len(all_terms[1].term_list) - 1)

RECURSIVE OriginalCount(_)
OriginalCount(all_terms) ==
    IF Len(all_terms) = 0 THEN 0
    ELSE OriginalCount(Tail(all_terms)) + Len(all_terms[1].term_list)

\* deduplicate_terms: the "extracted_terms" of the merged result, or no result
\* when _merge_term_info raised.
deduplicate_terms(rs) ==
    LET all_terms == collect_all_terms(rs)
        merged_terms == merge_duplicate_terms(all_terms)
    IN IF \E g \in 1..Len(merged_terms) : ~merged_terms[g].ok
       THEN [ok |-> FALSE, terms |-> <<>>, total_terms |-> 0, original_terms |-> 0,
             duplicates_removed |-> 0]
       ELSE [ok |-> TRUE, terms |-> merged_terms, total_terms |-> Len(merged_terms),
             original_terms |-> OriginalCount(all_terms),
             duplicates_removed |-> DuplicateCount(all_terms)]

AggInit ==
    /\ current_checkpoint = <<>>
    /\ disk = <<>>
    /\ incr_count = <<>>
    /\ pc = "aggregate"
    /\ texts = 0
    /\ max_concurrent = 0
    /\ semaphore = 0
    /\ submitted = 0
    /\ task = <<>>
    /\ outcome = <<>>
    /\ results = <<>>
    /\ updating = {}
    /\ local = <<>>
    /\ completion_order = <<>>
    /\ now = 0
    /\ dir = <<>>
    /\ op = [name |-> "init", arg |-> <<>>, ret |-> <<>>]
    /\ acked = <<>>
    /\ NoSplitter
    /\ NoExtraction

\* One more result reaches the list: it answers the next request, comes from
\* one of the source files and carries one term of the pool.
ReceiveResult ==
    /\ pc = "aggregate"
    /\ Len(results) < MaxResults
    /\ \E term \in TermPool : \E source_file \in 1..MaxSources :
          results' = Append(results, [custom_id |-> CustomId(Len(results)),
                                      source_file |-> source_file,
                                      terms |-> <<term>>])
    /\ UNCHANGED <<ckptVars, pc, texts, max_concurrent, semaphore, submitted, task,
                   outcome, updating, local, completion_order, laterVars>>

\* _run_deduplication(results)
Deduplicate ==
    /\ pc = "aggregate"
    /\ op' = [name |-> "deduplicate", arg |-> <<>>, ret |-> deduplicate_terms(results)]
    /\ pc' = "done"
    /\ UNCHANGED <<splitVars, ocrVars, ckptVars, texts, max_concurrent, semaphore, submitted, task,
                   outcome, results, updating, local, completion_order, now, dir,
                   acked>>

AggNext ==
    \/ ReceiveResult
    \/ Deduplicate

AggSpec == AggInit /\ [][AggNext]_vars

\* The normalized key of a merged term: the lower-cased, trimmed term, or the
\* lower-cased, trimmed English term and the Chinese term as it stands.
MergedKey(m) ==
    IF m.fmt = "bilingual"
    THEN LowerStr(Strip(m.eng_term)) \o <<"|">> \o m.zh_term
    ELSE LowerStr(Strip(m.term))

\* C20: in the output of deduplicate_terms no two merged terms have equal
\* normalized keys, whatever mix of single-field and two-field records the
\* results hold.
C20_MergedKeysUnique ==
    (op.name = "deduplicate" /\ op.ret.ok) =>
        \A i, j \in 1..Len(op.ret.terms) :
            i # j => MergedKey(op.ret.terms[i]) # MergedKey(op.ret.terms[j])

C20_Witness ==
    /\ op.name = "deduplicate"
    /\ op.ret.ok
    /\ Len(op.ret.terms) >= 2
    /\ Len(op.ret.terms) < Len(results)
    /\ \E i, j \in 1..Len(op.ret.terms) :
          op.ret.terms[i].fmt = "term" /\ op.ret.terms[j].fmt = "bilingual"

\* The records handed to the aggregator, as <<result index, term index>>.
InputRecords ==
    {<<k, i>> \in (1..Len(results)) \X (1..MaxResults) : i <= Len(results[k].terms)}

\* The distinct normalized keys of the records handed to the aggregator.
InputKeys == {TermKey(results[r[1]].terms[r[2]]) : r \in InputRecords}

\* C21: for every input the aggregator returns a merged set whose size is the
\* number of distinct normalized keys of the input records, and the reported
\* duplicates_removed is the number of input records minus the number of
\* merged terms.
C21_CountsMatchKeys ==
    op.name = "deduplicate" =>
        /\ op.ret.ok
        /\ Len(op.ret.terms) = Cardinality(InputKeys)
        /\ op.ret.total_terms = Len(op.ret.terms)
        /\ op.ret.duplicates_removed = Cardinality(InputRecords) - Len(op.ret.terms)

\* Two results carry two-field records whose English terms differ only in
\* letter case, whose Chinese terms are equal, and which come from two sources.
CasePair(k, l) ==
    LET a == results[k].terms[1]
        b == results[l].terms[1]
    IN /\ a.term = <<>> /\ b.term = <<>>
       /\ a.eng_term # <<>> /\ b.eng_term # <<>>
       /\ a.eng_term # b.eng_term
       /\ LowerStr(a.eng_term) = LowerStr(b.eng_term)
       /\ a.zh_term = b.zh_term
       /\ results[k].source_file # results[l].source_file

\* C22: with case-insensitive matching two two-field records from two sources
\* whose English terms differ only in letter case and whose Chinese terms are
\* equal end up in exactly one merged term, and both sources contribute to it.
C22_CaseVariantsMerged ==
    (op.name = "deduplicate" /\ op.ret.ok) =>
        \A k, l \in 1..Len(results) :
            CasePair(k, l) =>
                LET key == TermKey(results[k].terms[1])
                    hits == {g \in 1..Len(op.ret.terms) :
                                MergedKey(op.ret.terms[g]) = key}
                IN /\ Cardinality(hits) = 1
                   /\ \A g \in hits :
                         {results[k].source_file, results[l].source_file}
                            \subseteq op.ret.terms[g].source_files

C22_Witness ==
    /\ op.name = "deduplicate"
    /\ op.ret.ok
    /\ Len(results) = 2
    /\ CasePair(1, 2)
    /\ Len(op.ret.terms) = 1

\* ------------------------------------------- SplitSpec: text_splitter.py
\* A text is a sequence of characters.  "a" is a letter, "Z" stands for an
\* ideograph of the range U+4E00..U+9FFF, "F" for one of the sentence ends
\* of the split patterns and "C" for one of their clause separators.
ChineseChars == {"Z"}
SentenceEnds == {"F"}
ClauseSeparators == {"C"}

Min(a, b) == IF a <= b THEN a ELSE b

Max(a, b) == IF a >= b THEN a ELSE b

Abs(n) == IF n < 0 THEN 0 - n ELSE n

\* the slice str[a:b], positions counted from 0
Slice(str, a, b) ==
    IF Min(b, Len(str)) <= Max(a, 0) THEN <<>>
    ELSE SubSeq(str, Max(a, 0) + 1, Min(b, Len(str)))

\* TokenCounter.count_tokens without a tiktoken encoding:
\* int(chinese_chars * 0.5 + other_chars * 0.25)
count_tokens(str) ==
    IF Len(str) = 0 THEN 0
    ELSE LET chinese_chars == Cardinality({i \in 1..Len(str) : str[i] \in ChineseChars})
             other_chars == Len(str) - chinese_chars
         IN (2 * chinese_chars + other_chars) \div 4

\* re.sub(r'\r\n|\r', '\n', text)
RECURSIVE UnifyNewlines(_)
UnifyNewlines(str) ==
    IF Len(str) = 0 THEN str
    ELSE IF str[1] = "\r" /\ Len(str) >= 2 /\ str[2] = "\n"
         THEN <<"\n">> \o UnifyNewlines(SubSeq(str, 3, Len(str)))
    ELSE IF str[1] = "\r" THEN <<"\n">> \o UnifyNewlines(Tail(str))
    ELSE <<str[1]>> \o UnifyNewlines(Tail(str))

\* length of the white space run str starts with
RECURSIVE SpaceRun(_)
SpaceRun(str) ==
    IF Len(str) = 0 \/ str[1] \notin Whitespace THEN 0 ELSE 1 + SpaceRun(Tail(str))

\* positions of the newlines within the first n characters of str
NewlinesIn(str, n) == {i \in 1..n : str[i] = "\n"}

SetMax(S) == CHOOSE x \in S : \A y \in S : y <= x

\* Where a match of \n\s*\n (need = 2) or of \n\s*\n\s*\n+ (need = 3) that starts
\* at the first character of str ends, 0 when there is none: the quantifiers are
\* greedy, so the match runs to the last newline of the white space run.
BlankLinesEnd(str, need) ==
    IF Len(str) = 0 \/ str[1] # "\n" THEN 0
    ELSE LET nl == NewlinesIn(str, SpaceRun(str))
         IN IF Cardinality(nl) >= need THEN SetMax(nl) ELSE 0

\* re.sub(r'\n\s*\n\s*\n+', '\n\n', text)
RECURSIVE CollapseBlankLines(_)
CollapseBlankLines(str) ==
    IF Len(str) = 0 THEN str
    ELSE LET e == BlankLinesEnd(str, 3)
         IN IF e > 0 THEN <<"\n", "\n">> \o CollapseBlankLines(SubSeq(str, e + 1, Len(str)))
            ELSE <<str[1]>> \o CollapseBlankLines(Tail(str))

\* re.sub(r'[ \t]+', ' ', text)
RECURSIVE CollapseSpaces(_)
CollapseSpaces(str) ==
    IF Len(str) = 0 THEN str
    ELSE IF str[1] \in {" ", "\t"}
         THEN IF Len(str) >= 2 /\ str[2] \in {" ", "\t"}
              THEN CollapseSpaces(Tail(str))
              ELSE <<" ">> \o CollapseSpaces(Tail(str))
    ELSE <<str[1]>> \o CollapseSpaces(Tail(str))

\* _preprocess_text
preprocess_text(str) == Strip(CollapseSpaces(CollapseBlankLines(UnifyNewlines(str))))

\* _init_split_patterns: the patterns in priority order
split_patterns ==
    << "\\n\\s*\\n\\s*\\n+", "\\n\\s*\\n", "[F]\\s*\\n", "[F]\\s+",
       "[C]\\s*\\n", "\\n", "[C]\\s+", "\\s+" >>

\* Where a match of <one of first>\s*\n that starts at the first character of
\* str ends, 0 when there is none.
MarkThenNewlineEnd(str, first) ==
    IF Len(str) = 0 \/ str[1] \notin first THEN 0
    ELSE LET nl == NewlinesIn(Tail(str), SpaceRun(Tail(str)))
         IN IF nl # {} THEN 1 + SetMax(nl) ELSE 0

\* Where a match of <one of first>\s+ that starts at the first character of
\* str ends, 0 when there is none.
MarkThenSpaceEnd(str, first) ==
    IF Len(str) = 0 \/ str[1] \notin first \/ SpaceRun(Tail(str)) = 0 THEN 0
    ELSE 1 + SpaceRun(Tail(str))

\* Where a match of split_patterns[k] that starts at the first character of
\* str ends, 0 when there is none.
MatchEnd(k, str) ==
    CASE k = 1 -> BlankLinesEnd(str, 3)
      [] k = 2 -> BlankLinesEnd(str, 2)
      [] k = 3 -> MarkThenNewlineEnd(str, SentenceEnds)
      [] k = 4 -> MarkThenSpaceEnd(str, SentenceEnds)
      [] k = 5 -> MarkThenNewlineEnd(str, ClauseSeparators)
      [] k = 6 -> IF Len(str) > 0 /\ str[1] = "\n" THEN 1 ELSE 0
      [] k = 7 -> MarkThenSpaceEnd(str, ClauseSeparators)
      [] k = 8 -> SpaceRun(str)

\* {m.end() for m in re.finditer(split_patterns[k], str)}, scanning from
\* position i (counted from 0): leftmost matches that do not overlap
RECURSIVE MatchEndsFrom(_, _, _)
MatchEndsFrom(k, str, i) ==
    IF i >= Len(str) THEN {}
    ELSE LET e == MatchEnd(k, SubSeq(str, i + 1, Len(str)))
         IN IF e > 0 THEN {i + e} \cup MatchEndsFrom(k, str, i + e)
            ELSE MatchEndsFrom(k, str, i + 1)

MatchEnds(k, str) == MatchEndsFrom(k, str, 0)

\* min(matches, key=lambda m: abs(m.end() - target_pos)).end(): of the matches
\* at the least distance, min returns the first one
BestMatchEnd(ends, target_pos) ==
    CHOOSE e \in ends : \A f \in ends :
        \/ Abs(e - target_pos) < Abs(f - target_pos)
        \/ Abs(e - target_pos) = Abs(f - target_pos) /\ e <= f

\* max_end of _find_chunk_end
MaxEnd(str, start_pos) == Min(start_pos + max_tokens * 4, Len(str))

\* candidate_pos of pattern k in _find_chunk_end, 0 when the pattern has no match
CandidatePos(str, start_pos, k) ==
    LET ends == MatchEnds(k, Slice(str, start_pos, MaxEnd(str, start_pos)))
    IN IF ends = {} THEN 0 ELSE start_pos + BestMatchEnd(ends, max_tokens * 3)

\* the patterns whose candidate passes the token check of _find_chunk_end
AcceptedPatterns(str, start_pos) ==
    {k \in 1..Len(split_patterns) :
        /\ MatchEnds(k, Slice(str, start_pos, MaxEnd(str, start_pos))) # {}
        /\ count_tokens(Slice(str, start_pos, CandidatePos(str, start_pos, k))) <= max_tokens}

SetMin(S) == CHOOSE x \in S : \A y \in S : x <= y

\* _find_chunk_end
find_chunk_end(str, start_pos) ==
    IF MaxEnd(str, start_pos) >= Len(str) THEN Len(str)
    ELSE IF AcceptedPatterns(str, start_pos) # {}
         THEN CandidatePos(str, start_pos, SetMin(AcceptedPatterns(str, start_pos)))
    ELSE MaxEnd(str, start_pos)

\* history: which return of _find_chunk_end gave the position
CutKind(str, start_pos) ==
    IF MaxEnd(str, start_pos) >= Len(str) THEN "rest"
    ELSE IF AcceptedPatterns(str, start_pos) # {} THEN "pattern"
    ELSE "hard_cut"

\* TextChunk; metadata as the two flags it can hold.  own (the content without
\* overlap context) and cuts (how the ends of its parts were found) are history.
TextChunk(content, start_pos, end_pos, tokens, chunk_id, merged, has_overlap, own, cuts) ==
    [content |-> content, start_pos |-> start_pos, end_pos |-> end_pos,
     tokens |-> tokens, chunk_id |-> chunk_id, merged |-> merged,
     has_overlap |-> has_overlap, own |-> own, cuts |-> cuts]

\* one pass of the loop of _split_by_patterns: the chunks list after it
SplitByPatternsPass(str, pos, list) ==
    LET end_pos == find_chunk_end(str, pos)
        chunk_content == Strip(Slice(str, pos, end_pos))
    IN IF end_pos > pos /\ Len(chunk_content) > 0
       THEN Append(list, TextChunk(chunk_content, pos, end_pos, count_tokens(chunk_content),
                                   Len(list), FALSE, FALSE, chunk_content,
                                   {CutKind(str, pos)}))
       ELSE list

\* _merge_small_chunks: the loop from index i (counted from 0)
RECURSIVE MergeFrom(_, _)
MergeFrom(list, i) ==
    IF i >= Len(list) THEN <<>>
    ELSE LET current_chunk == list[i + 1]
             min_tokens == Max(100, max_tokens \div 4)
         IN IF /\ current_chunk.tokens < min_tokens
               /\ i + 1 < Len(list)
               /\ current_chunk.tokens + list[i + 2].tokens <= max_tokens
            THEN LET next_chunk == list[i + 2]
                     merged_content == current_chunk.content \o <<"\n", "\n">> \o next_chunk.content
                 IN <<TextChunk(merged_content, current_chunk.start_pos, next_chunk.end_pos,
                                count_tokens(merged_content), current_chunk.chunk_id,
                                TRUE, FALSE, merged_content,
                                current_chunk.cuts \cup next_chunk.cuts)>>
                    \o MergeFrom(list, i + 2)
            ELSE <<current_chunk>> \o MergeFrom(list, i + 1)

merge_small_chunks(list) == IF Len(list) <= 1 THEN list ELSE MergeFrom(list, 0)

\* str.split()
RECURSIVE Words(_)
Words(str) ==
    LET s == LStrip(str) IN
    IF Len(s) = 0 THEN <<>>
    ELSE LET n == CHOOSE m \in 1..Len(s) :
                      /\ \A j \in 1..m : s[j] \notin Whitespace
                      /\ m = Len(s) \/ s[m + 1] \in Whitespace
         IN <<SubSeq(s, 1, n)>> \o Words(SubSeq(s, n + 1, Len(s)))

\* ' '.join(words)
RECURSIVE Join(_)
Join(words) ==
    IF Len(words) = 0 THEN <<>>
    ELSE IF Len(words) = 1 THEN words[1]
    ELSE words[1] \o <<" ">> \o Join(Tail(words))

Reverse(seq) == [i \in 1..Len(seq) |-> seq[Len(seq) + 1 - i]]

\* the loop of _extract_overlap_text: the words taken before the break
RECURSIVE TakeWords(_, _, _)
TakeWords(words, current_tokens, target_tokens) ==
    IF Len(words) = 0 THEN <<>>
    ELSE IF current_tokens + count_tokens(words[1]) > target_tokens THEN <<>>
    ELSE <<words[1]>> \o TakeWords(Tail(words), current_tokens + count_tokens(words[1]),
                                   target_tokens)

\* target_tokens of _extract_overlap_text
OverlapTarget == Min(overlap_tokens, max_tokens \div 4)

\* _extract_overlap_text
extract_overlap_text(str, from_end) ==
    IF from_end
    THEN Join(Reverse(TakeWords(Reverse(Words(str)), 0, OverlapTarget)))
    ELSE Join(TakeWords(Words(str), 0, OverlapTarget))

OverlapMark == <<"\n", ".", ".", ".", "\n">>

\* _add_overlap
add_overlap(list) ==
    IF Len(list) <= 1 THEN list
    ELSE [i \in 1..Len(list) |->
            LET before == IF i > 1 THEN extract_overlap_text(list[i - 1].content, TRUE) ELSE <<>>
                after == IF i < Len(list) THEN extract_overlap_text(list[i + 1].content, FALSE)
                         ELSE <<>>
                content == (IF Len(before) > 0 THEN before \o OverlapMark ELSE <<>>)
                           \o list[i].content
                           \o (IF Len(after) > 0 THEN OverlapMark \o after ELSE <<>>)
            IN TextChunk(content, list[i].start_pos, list[i].end_pos, count_tokens(content),
                         list[i].chunk_id, list[i].merged, TRUE, list[i].own, list[i].cuts)]

\* _create_single_chunk_result
create_single_chunk_result(str, tokens) ==
    <<TextChunk(str, 0, Len(str), tokens, 0, FALSE, FALSE, str, {"single"})>>

MaxTokens == 1     \* largest max_tokens a splitter is constructed with in SplitSpec
MaxOverlap == 1    \* largest overlap_tokens a splitter is constructed with in SplitSpec
MaxTextLen == 10   \* longest text handed to the splitter in SplitSpec

\* no checkpoint, no batch, no checkpoint directory
NoPipeline ==
    /\ current_checkpoint = <<>>
    /\ disk = <<>>
    /\ incr_count = <<>>
    /\ texts = 0
    /\ max_concurrent = 0
    /\ semaphore = 0
    /\ submitted = 0
    /\ task = <<>>
    /\ outcome = <<>>
    /\ results = <<>>
    /\ updating = {}
    /\ local = <<>>
    /\ completion_order = <<>>
    /\ now = 0
    /\ dir = <<>>
    /\ acked = <<>>

pipelineVars == <<ckptVars, texts, max_concurrent, semaphore, submitted, task, outcome,
                  results, updating, local, completion_order, now, dir, acked>>

\* the pieces the texts are put together from
Segments == {<<"a", "a">>, <<"Z", "Z">>, <<" ">>, <<"\n", "\n">>}

\* TextSplitter.__init__(max_tokens, overlap_tokens): the arguments are stored
\* as they come.
SplitInit ==
    /\ NoPipeline
    /\ NoExtraction
    /\ pc = "constructed"
    /\ op = [name |-> "__init__", arg |-> 0, ret |-> 0]
    /\ max_tokens \in 0..MaxTokens
    /\ overlap_tokens \in 0..MaxOverlap
    /\ text = <<>>
    /\ processed_text = <<>>
    /\ current_pos = 0
    /\ chunks = <<>>

\* the caller puts the text together
AppendSegment ==
    /\ pc = "constructed"
    /\ \E seg \in Segments :
          /\ Len(text) + Len(seg) <= MaxTextLen
          /\ text' = text \o seg
    /\ UNCHANGED <<pipelineVars, ocrVars, pc, op, max_tokens, overlap_tokens,
                   processed_text, current_pos, chunks>>

FitsBelowMaxOnly(str) == count_tokens(str) < max_tokens

\* total_tokens <= self.max_tokens
FitsOneChunk(str) == count_tokens(str) <= max_tokens

\* split_text_advanced(text) up to the call of _split_by_patterns
split_text_advanced ==
    /\ pc = "constructed"
    /\ op' = [name |-> "split_text_advanced", arg |-> 0, ret |-> 0]
    /\ IF Len(text) = 0 \/ Len(Strip(text)) = 0
       THEN /\ chunks' = <<>>
            /\ pc' = "returned"
            /\ UNCHANGED <<processed_text, current_pos>>
       ELSE /\ processed_text' = preprocess_text(text)
            /\ current_pos' = 0
            /\ IF FitsOneChunk(processed_text')
               THEN /\ chunks' = create_single_chunk_result(processed_text',
                                                            count_tokens(processed_text'))
                    /\ pc' = "returned"
               ELSE /\ chunks' = <<>>
                    /\ pc' = "split_by_patterns"
    /\ UNCHANGED <<pipelineVars, ocrVars, max_tokens, overlap_tokens, text>>

\* one pass of the while loop of _split_by_patterns
SplitByPatternsStep ==
    /\ pc = "split_by_patterns"
    /\ current_pos < Len(processed_text)
    /\ chunks' = SplitByPatternsPass(processed_text, current_pos, chunks)
    /\ current_pos' = find_chunk_end(processed_text, current_pos)
    /\ op' = [name |-> "_find_chunk_end", arg |-> current_pos,
              ret |-> find_chunk_end(processed_text, current_pos)]
    /\ UNCHANGED <<pipelineVars, ocrVars, pc, max_tokens, overlap_tokens, text,
                   processed_text>>

\* the loop of _split_by_patterns ends; _post_process_chunks merges the small chunks
MergeSmallChunks ==
    /\ pc = "split_by_patterns"
    /\ current_pos >= Len(processed_text)
    /\ chunks' = IF Len(chunks) = 0 THEN chunks ELSE merge_small_chunks(chunks)
    /\ pc' = "merged"
    /\ op' = [name |-> "_merge_small_chunks", arg |-> 0, ret |-> 0]
    /\ UNCHANGED <<pipelineVars, ocrVars, max_tokens, overlap_tokens, text,
                   processed_text, current_pos>>

\* the rest of _post_process_chunks and the return of split_text_advanced
AddOverlap ==
    /\ pc = "merged"
    /\ chunks' = IF Len(chunks) > 0 /\ overlap_tokens > 0 THEN add_overlap(chunks) ELSE chunks
    /\ pc' = "returned"
    /\ op' = [name |-> "_add_overlap", arg |-> 0, ret |-> 0]
    /\ UNCHANGED <<pipelineVars, ocrVars, max_tokens, overlap_tokens, text,
                   processed_text, current_pos>>

SplitNext ==
    \/ AppendSegment
    \/ split_text_advanced
    \/ SplitByPatternsStep
    \/ MergeSmallChunks
    \/ AddOverlap

SplitSpec == SplitInit /\ [][SplitNext]_vars

\* C23: when the input needs splitting, every chunk's unit count without the
\* overlap context is at most max_tokens unless the hard cut produced it; this
\* holds for the last chunk and after the merge of small chunks as well.
C23_ChunksWithinMaxUnits ==
    \A i \in 1..Len(chunks) :
        ("single" \notin chunks[i].cuts /\ "hard_cut" \notin chunks[i].cuts)
            => count_tokens(chunks[i].own) <= max_tokens

\* not text or not text.strip()
IsBlank(str) == Len(str) = 0 \/ Len(Strip(str)) = 0

\* a text the preprocessing has nothing to change in: trimmed, no carriage
\* return, no tab, no two spaces in a row, no three newlines in one run
IsNormalised(str) ==
    /\ str = Strip(str)
    /\ \A i \in 1..Len(str) :
          /\ str[i] \notin {"\r", "\t"}
          /\ ~(i < Len(str) /\ str[i] = " " /\ str[i + 1] = " ")
          /\ BlankLinesEnd(SubSeq(str, i, Len(str)), 3) = 0

RECURSIVE SourceSlices(_, _)
SourceSlices(str, list) ==
    IF Len(list) = 0 THEN <<>>
    ELSE Slice(str, list[1].start_pos, list[1].end_pos) \o SourceSlices(str, Tail(list))

\* C25: the (start_pos, end_pos) ranges of the returned chunks tile the text
\* they index: the first starts at 0, each starts where the one before ends,
\* the last ends at the length of the text, and the slices at the ranges, put
\* together, are the text.
C25_RangesTileSource ==
    (pc = "returned" /\ Len(chunks) > 0)
        => /\ chunks[1].start_pos = 0
           /\ \A i \in 1..(Len(chunks) - 1) : chunks[i + 1].start_pos = chunks[i].end_pos
           /\ chunks[Len(chunks)].end_pos = Len(processed_text)
           /\ SourceSlices(processed_text, chunks) = processed_text

\* C26: a configuration whose overlap_tokens is max_tokens or more is refused
\* when the splitter is constructed, it is not accepted and clamped: no chunk
\* is ever given overlap context under such a configuration.
C26_OverlapBelowMaxUnits ==
    (\E i \in 1..Len(chunks) : chunks[i].has_overlap) => overlap_tokens < max_tokens

\* C27: after the merge of small chunks no chunk is left that counts less than
\* max(100, max_tokens // 4) units and could be merged with the chunk right
\* after it within max_tokens.
C27_NoMergeablePairLeft ==
    pc = "merged" =>
        \A i \in 1..(Len(chunks) - 1) :
            ~(/\ chunks[i].tokens < Max(100, max_tokens \div 4)
              /\ chunks[i].tokens + chunks[i + 1].tokens <= max_tokens)

\* C29: every call _find_chunk_end(text, start_pos) made by _split_by_patterns
\* returns a position beyond start_pos and at most
\* min(start_pos + 4 * max_tokens, len(text)), so the loop ends, for every
\* max_tokens the constructor accepts.
C29_ChunkEndAdvances ==
    op.name = "_find_chunk_end" =>
        /\ op.ret > op.arg
        /\ op.ret <= Min(op.arg + 4 * max_tokens, Len(processed_text))

\* the items of the current checkpoint whose status is s
ItemsWithStatus(s) ==
    {k \in 1..Len(current_checkpoint[1].files_state) :
        current_checkpoint[1].files_state[k].status = s}

\* C28: in every state of a checkpoint session completed_files is the number
\* of items whose status is completed and failed_files the number of items
\* whose status is failed, so that the pending_files of
\* get_processing_progress is the number of items not yet finished.
C28_CountersMatchItems ==
    current_checkpoint # <<>> =>
        /\ current_checkpoint[1].completed_files = Cardinality(ItemsWithStatus("completed"))
        /\ current_checkpoint[1].failed_files = Cardinality(ItemsWithStatus("failed"))

\* ------------------------- OcrSpec: PDFExtractor._extract_pdf_in_batches
MaxBatches == 2    \* most page batches of one PDF in OcrSpec
MaxRetries == 2    \* largest max_retries in OcrSpec

\* number of entries of seq that equal x
Count(seq, x) == Cardinality({i \in 1..Len(seq) : seq[i] = x})

\* all_texts = [], the old result file removed, the first batch about to be tried
OcrInit ==
    /\ NoPipeline
    /\ NoSplitter
    /\ op = [name |-> "init", arg |-> 0, ret |-> 0]
    /\ num_batches \in 1..MaxBatches
    /\ max_retries \in 1..MaxRetries
    /\ batch_idx = 0
    /\ retry_attempt = 0
    /\ all_texts = <<>>
    /\ batch_output_file = <<>>
    /\ attempts = [b \in 1..num_batches |-> 0]
    /\ pc = "extract"

\* for batch_idx in range(num_batches): the next batch, or the end of the loop
NextBatch ==
    /\ batch_idx' = batch_idx + 1
    /\ retry_attempt' = 0
    /\ pc' = IF batch_idx + 1 < num_batches THEN "extract" ELSE "finished"

\* except Exception as e: the next attempt of range(max_retries), or, after the
\* last one, batch_success stays False and the loop continues with the next batch
AttemptFailed ==
    IF retry_attempt + 1 < max_retries
    THEN /\ retry_attempt' = retry_attempt + 1
         /\ pc' = "extract"
         /\ UNCHANGED batch_idx
    ELSE NextBatch

\* self.ocr_extractor.extract(batch_pdf_path): it returns the batch's text, which
\* is marked and appended to all_texts, or it raises
ExtractBatch ==
    /\ pc = "extract"
    /\ attempts' = [attempts EXCEPT ![batch_idx + 1] = @ + 1]
    /\ \E raised \in BOOLEAN :
          /\ op' = [name |-> "extract", arg |-> batch_idx, ret |-> IF raised THEN 0 ELSE 1]
          /\ IF raised
             THEN /\ AttemptFailed
                  /\ UNCHANGED all_texts
             ELSE /\ all_texts' = Append(all_texts, batch_idx)
                  /\ pc' = "save"
                  /\ UNCHANGED <<batch_idx, retry_attempt>>
    /\ UNCHANGED <<pipelineVars, splitVars, num_batches, max_retries, batch_output_file>>

\* the append of the batch to the result file; an error in it is logged only,
\* with the block written or not
SaveBatch ==
    /\ pc = "save"
    /\ \E raised \in BOOLEAN, written \in BOOLEAN :
          /\ ~raised => written
          /\ op' = [name |-> "save", arg |-> batch_idx, ret |-> IF raised THEN 0 ELSE 1]
          /\ batch_output_file' = IF written THEN Append(batch_output_file, batch_idx)
                                  ELSE batch_output_file
    /\ pc' = "unlink"
    /\ UNCHANGED <<pipelineVars, splitVars, num_batches, max_retries, batch_idx,
                   retry_attempt, all_texts, attempts>>

\* batch_pdf_path.unlink(), then batch_success = True and break; an error of
\* unlink reaches the handler of the attempt
UnlinkBatchPdf ==
    /\ pc = "unlink"
    /\ \E raised \in BOOLEAN :
          /\ op' = [name |-> "unlink", arg |-> batch_idx, ret |-> IF raised THEN 0 ELSE 1]
          /\ IF raised THEN AttemptFailed ELSE NextBatch
    /\ UNCHANGED <<pipelineVars, splitVars, num_batches, max_retries, all_texts,
                   batch_output_file, attempts>>

OcrNext ==
    \/ ExtractBatch
    \/ SaveBatch
    \/ UnlinkBatchPdf

OcrSpec == OcrInit /\ [][OcrNext]_vars

\* C30: each page batch is attempted at most max_retries times; whichever step
\* of an attempt fails, the batch's text is in the accumulated result and in
\* the result file at most once; a batch whose attempts all failed is skipped
\* and the batches after it are still processed.
C30_BatchAddedAtMostOnce ==
    /\ \A b \in 1..num_batches :
          /\ attempts[b] <= max_retries
          /\ Count(all_texts, b - 1) <= 1
          /\ Count(batch_output_file, b - 1) <= 1
    /\ pc = "finished" => \A b \in 1..num_batches : attempts[b] >= 1

====
